---- MODULE Spec2Model ----
(***************************************************************************)
(* Model of server.py (data-analyst-mcp): the lazily created shared        *)
(* database connection, the tables it holds, the files the tools read and  *)
(* write, and the seven tool handlers.                                     *)
(*                                                                         *)
(* Text is modelled as a sequence of tokens (a query "SELECT * FROM t1"    *)
(* is <<"SELECT","*","FROM","t1">>), so that f-string interpolation is     *)
(* concatenation and the engine really parses what the handlers build.     *)
(* A path or URL is the sequence of its '/'-separated segments.            *)
(*                                                                         *)
(* The handlers are synchronous and are invoked one at a time, so each     *)
(* invocation is one step.  The process is the one started without         *)
(* MOTHERDUCK_TOKEN, whose database is in memory and empty at start.       *)
(***************************************************************************)
EXTENDS Integers, Sequences, FiniteSets, TLC

VARIABLES
    db_connection,     \* the module global: None or the connection handle
    tables,            \* the database behind the connection: name -> table
    files,             \* the file system and the web: path or URL -> CSV file
    result,            \* the last tool invocation: arguments and outcome
    connects,          \* history: successful duckdb.connect() calls
    attempts,          \* history: duckdb.connect() calls
    last_import,       \* history: table_name -> row_count of its last successful import
    exported,          \* history: output_path -> what the last export there reported
    reimported,        \* history: the last invocation replaced a table by different data
    steps              \* tool invocations so far

vars == <<db_connection, tables, files, result,
          connects, attempts, last_import, exported, reimported, steps>>

\* ---------------------------------------------------------------- bounds
MaxOps == 3          \* tool invocations per behaviour
BigRows == 101       \* rows of the large CSV document (one more than the default limit)

\* ------------------------------------------------------ program constants
DefaultLimit == 100  \* query_data(query, limit=100)
DescribeSample == 5  \* describe_table: LIMIT 5
ResourceSample == 10 \* get_table_resource: LIMIT 10

\* os.getenv("MOTHERDUCK_TOKEN", "") in a process started without the
\* variable: the database is the local in-memory one, empty at start
MOTHERDUCK_TOKEN == ""

None == [none |-> TRUE]       \* db_connection = None
NoFile == [absent |-> TRUE]   \* no file at a path, nothing served at a URL
NoDf == [nodf |-> TRUE]       \* no DataFrame

\* ------------------------------------------------------------ small helpers
\* Rows are kept as a sequence of runs <<kind, text, lo, hi>>: the run
\* stands for the consecutive rows <<kind, text, lo>> .. <<kind, text, hi>>.
RunSize(run) == run[4] - run[3] + 1

\* len(df): the number of rows
RECURSIVE RowCount(_)
RowCount(rows) ==
    IF rows = <<>> THEN 0 ELSE RunSize(Head(rows)) + RowCount(Tail(rows))

\* the first n rows
RECURSIVE Prefix(_, _)
Prefix(rows, n) ==
    IF rows = <<>> \/ n <= 0 THEN <<>>
    ELSE IF RunSize(Head(rows)) <= n
         THEN <<Head(rows)>> \o Prefix(Tail(rows), n - RunSize(Head(rows)))
         ELSE << <<Head(rows)[1], Head(rows)[2], Head(rows)[3], Head(rows)[3] + n - 1>> >>

\* F applied to the value of v, with v evaluated once (a local variable
\* holding an intermediate result)
Bind(v, F(_)) == CHOOSE y \in {F(x) : x \in {v}} : TRUE

\* ===================================================== tabular data (pandas)
\* A DataFrame is [columns: sequence of names, rows: runs of rows].
DataFrame(cols, rows) == [columns |-> cols, rows |-> rows]

\* rows 1..n of the CSV document doc
DataRows(doc, n) == IF n = 0 THEN <<>> ELSE << <<"row", doc, 1, n>> >>

\* A CSV file is [header: sequence of header cells, records: rows].
\* A zero-byte file has no header line at all (header = <<>>).
CsvFile(header, records) == [header |-> header, records |-> records]

\* pandas' header handling in read_csv: an empty header cell at position i
\* becomes "Unnamed: i-1"; a repeated name gets the suffix ".1".
Unnamed(i) ==
    CASE i = 1 -> "Unnamed: 0"
      [] i = 2 -> "Unnamed: 1"
      [] OTHER -> "Unnamed: n"

Dotted(name) ==
    CASE name = "name" -> "name.1"
      [] name = "id" -> "id.1"
      [] name = "x" -> "x.1"
      [] OTHER -> "dup.1"

MangleHeader(header) ==
    [i \in 1..Len(header) |->
        IF header[i] = "" THEN Unnamed(i)
        ELSE IF \E j \in 1..(i-1) : header[j] = header[i] THEN Dotted(header[i])
        ELSE header[i]]

\* pd.read_csv(source): [ok, error, df]
read_csv(fs, source) ==
    IF source \notin DOMAIN fs \/ fs[source] = NoFile
    THEN [ok |-> FALSE, error |-> "SourceFetch", df |-> NoDf]
    ELSE IF fs[source].header = <<>>
    THEN [ok |-> FALSE, error |-> "Parse", df |-> NoDf]
    ELSE [ok |-> TRUE, error |-> "",
          df |-> DataFrame(MangleHeader(fs[source].header), fs[source].records)]

\* DataFrame.to_csv(path, index=...): the file text written.  With
\* index=True pandas writes the row index as a first, unnamed column.
to_csv(df, index) ==
    CsvFile(IF index THEN <<"">> \o df.columns ELSE df.columns, df.rows)

\* ============================================== the database engine (duckdb)
\* The database is a function from table names to DataFrame-shaped tables.
Idents == {"t1", "limits"}          \* identifiers usable as table names
NameOrder == <<"limits", "t1">>     \* catalog order of SHOW TABLES

\* str.upper() on one token
Upper(tok) ==
    CASE tok = "select" -> "SELECT"
      [] tok = "from" -> "FROM"
      [] tok = "limit" -> "LIMIT"
      [] tok = "as" -> "AS"
      [] tok = "count" -> "COUNT"
      [] tok = "limits" -> "LIMITS"
      [] tok = "t1" -> "T1"
      [] tok = "df" -> "DF"
      [] tok = "note" -> "NOTE"
      [] OTHER -> tok

Keywords == {"SELECT", "FROM", "LIMIT", "AS", "DESCRIBE", "SUMMARIZE", "SHOW",
             "TABLES", "DROP", "TABLE", "IF", "EXISTS", "CREATE", "DELETE"}

\* the engine reads keywords case-insensitively
Norm(stmt) ==
    [i \in 1..Len(stmt) |->
        IF Upper(stmt[i]) \in Keywords THEN Upper(stmt[i]) ELSE stmt[i]]

\* str(limit) as interpolated by an f-string, and the engine's reading of it
IntToStr(n) ==
    CASE n = 0 -> "0"
      [] n = 1 -> "1"
      [] n = 2 -> "2"
      [] n = DescribeSample -> "5"
      [] n = ResourceSample -> "10"
      [] n = DefaultLimit -> "100"
      [] n = -1 -> "-1"
      [] OTHER -> "?"

NumTokens == {"0", "1", "2", "5", "10", "100", "-1"}

StrToInt(tok) ==
    CASE tok = "0" -> 0
      [] tok = "1" -> 1
      [] tok = "2" -> 2
      [] tok = "5" -> DescribeSample
      [] tok = "10" -> ResourceSample
      [] tok = "100" -> DefaultLimit
      [] OTHER -> -1

\* a line comment runs from "--" to the end of the text
StripComment(text) ==
    LET marks == {i \in 1..Len(text) : text[i] = "--"} IN
    IF marks = {} THEN text
    ELSE SubSeq(text, 1, (CHOOSE i \in marks : \A j \in marks : i <= j) - 1)

\* split the text at ";" into statements; empty statements are skipped
RECURSIVE SplitStatements(_, _)
SplitStatements(text, cur) ==
    IF text = <<>> THEN (IF cur = <<>> THEN <<>> ELSE <<cur>>)
    ELSE IF Head(text) = ";"
         THEN (IF cur = <<>> THEN <<>> ELSE <<cur>>) \o SplitStatements(Tail(text), <<>>)
         ELSE SplitStatements(Tail(text), Append(cur, Head(text)))

Stmt(kind, table, n) == [kind |-> kind, table |-> table, n |-> n]

\* the engine's parser, on one statement
ParseStmt(s) ==
    LET u == Norm(s) IN
    CASE Len(u) = 4 /\ SubSeq(u, 1, 3) = <<"SELECT", "*", "FROM">> /\ u[4] \in Idents \cup {"df"}
            -> Stmt("select", u[4], -2)
      [] Len(u) = 6 /\ SubSeq(u, 1, 3) = <<"SELECT", "*", "FROM">> /\ u[4] \in Idents
            /\ u[5] = "LIMIT" /\ u[6] \in NumTokens
            -> Stmt("select", u[4], StrToInt(u[6]))
      [] Len(u) = 6 /\ SubSeq(u, 1, 3) = <<"SELECT", "COUNT(*)", "AS">> /\ u[5] = "FROM"
            /\ u[6] \in Idents
            -> Stmt("count", u[6], -2)
      [] Len(u) = 2 /\ u[1] = "DESCRIBE" /\ u[2] \in Idents -> Stmt("describe", u[2], -2)
      [] Len(u) = 2 /\ u[1] = "SUMMARIZE" /\ u[2] \in Idents -> Stmt("summarize", u[2], -2)
      [] u = <<"SHOW", "TABLES">> -> Stmt("show", "", -2)
      [] Len(u) = 3 /\ SubSeq(u, 1, 2) = <<"DROP", "TABLE">> /\ u[3] \in Idents
            -> Stmt("drop", u[3], -2)
      [] Len(u) = 5 /\ SubSeq(u, 1, 4) = <<"DROP", "TABLE", "IF", "EXISTS">> /\ u[5] \in Idents
            -> Stmt("drop_if_exists", u[5], -2)
      [] Len(u) = 8 /\ SubSeq(u, 1, 2) = <<"CREATE", "TABLE">> /\ u[3] \in Idents
            /\ SubSeq(u, 4, 8) = <<"AS", "SELECT", "*", "FROM", "df">>
            -> Stmt("create_as", u[3], -2)
      [] Len(u) = 3 /\ SubSeq(u, 1, 2) = <<"DELETE", "FROM">> /\ u[3] \in Idents
            -> Stmt("delete", u[3], -2)
      [] OTHER -> Stmt("syntax_error", "", -2)

\* one row holding the number n
CountFrame(col, n) == DataFrame(<<col>>, << <<"count", "", n, n>> >>)
NoRows(col) == DataFrame(<<col>>, <<>>)

ShowTables(db) ==
    LET present == SelectSeq(NameOrder, LAMBDA t : t \in DOMAIN db) IN
    DataFrame(<<"name">>, [i \in 1..Len(present) |-> <<"name", present[i], i, i>>])

SchemaRows(tab) == [i \in 1..Len(tab.columns) |-> <<"column", tab.columns[i], i, i>>]

Out(ok, db, error, df) == [ok |-> ok, db |-> db, error |-> error, df |-> df]

Without(db, t) == [x \in DOMAIN db \ {t} |-> db[x]]
With(db, t, tab) == [x \in DOMAIN db \cup {t} |-> IF x = t THEN tab ELSE db[x]]

\* the engine running one parsed statement; df is the caller's DataFrame
\* variable that "FROM df" resolves to (NoDf when the caller has none).
\* A statement on a missing table fails (Catalog), a negative LIMIT is
\* rejected (Binder), DROP answers with no rows and DELETE and CREATE
\* TABLE AS with one row holding the number of rows affected.
ExecStmt(db, st, df) ==
    CASE st.kind = "select" /\ st.table = "df" ->
            IF df = NoDf THEN Out(FALSE, db, "Catalog", NoDf) ELSE Out(TRUE, db, "", df)
      [] st.kind \in {"select", "count", "describe", "summarize", "drop", "delete"}
            /\ st.table # "df" /\ st.table \notin DOMAIN db ->
            Out(FALSE, db, "Catalog", NoDf)
      [] st.kind = "select" /\ st.table \in DOMAIN db ->
            IF st.n = -2 THEN Out(TRUE, db, "", db[st.table])
            ELSE IF st.n < 0 THEN Out(FALSE, db, "Binder", NoDf)
            ELSE Out(TRUE, db, "",
                     DataFrame(db[st.table].columns, Prefix(db[st.table].rows, st.n)))
      [] st.kind = "count" /\ st.table \in DOMAIN db ->
            Out(TRUE, db, "", CountFrame("count", RowCount(db[st.table].rows)))
      [] st.kind = "describe" /\ st.table \in DOMAIN db ->
            Out(TRUE, db, "", DataFrame(<<"column_name", "column_type">>, SchemaRows(db[st.table])))
      [] st.kind = "summarize" /\ st.table \in DOMAIN db ->
            Out(TRUE, db, "", DataFrame(<<"column_name", "count">>, SchemaRows(db[st.table])))
      [] st.kind = "show" -> Out(TRUE, db, "", ShowTables(db))
      [] st.kind = "drop" /\ st.table \in DOMAIN db ->
            Out(TRUE, Without(db, st.table), "", NoRows("Success"))
      [] st.kind = "drop_if_exists" ->
            Out(TRUE, IF st.table \in DOMAIN db THEN Without(db, st.table) ELSE db,
                "", NoRows("Success"))
      [] st.kind = "create_as" ->
            IF df = NoDf \/ st.table \in DOMAIN db THEN Out(FALSE, db, "Catalog", NoDf)
            ELSE Out(TRUE, With(db, st.table, df), "", CountFrame("Count", RowCount(df.rows)))
      [] st.kind = "delete" /\ st.table \in DOMAIN db ->
            Out(TRUE, With(db, st.table, DataFrame(db[st.table].columns, <<>>)), "",
                CountFrame("Count", RowCount(db[st.table].rows)))
      [] OTHER -> Out(FALSE, db, "Parser", NoDf)

\* statements run one after another, each committed on its own; the first
\* failure stops the run and the effects of the earlier statements stay
RECURSIVE RunAll(_, _, _, _)
RunAll(db, stmts, df, last) ==
    IF stmts = <<>> THEN last
    ELSE LET r == ExecStmt(db, Head(stmts), df) IN
         IF ~r.ok THEN r ELSE RunAll(r.db, Tail(stmts), df, r)

\* conn.execute(text).fetchdf(): the whole text is parsed before anything runs
Execute(db, text, df) ==
    Bind(StripComment(text), LAMBDA code :
    Bind(SplitStatements(code, <<>>), LAMBDA stmts :
    Bind([i \in 1..Len(stmts) |-> ParseStmt(stmts[i])], LAMBDA parsed :
       IF stmts = <<>> \/ \E i \in 1..Len(parsed) : parsed[i].kind = "syntax_error"
       THEN Out(FALSE, db, "Parser", NoDf)
       ELSE RunAll(db, parsed, df, Out(FALSE, db, "Parser", NoDf)))))

\* ========================================================= server.py
\* get_connection() without the "is None" test: connects on every call
get_connection_always_connects(conn, token, connectOk, fresh) ==
    IF connectOk
    THEN [ok |-> TRUE, called |-> TRUE,
          conn |-> [id |-> fresh, mode |-> IF token # "" THEN "md" ELSE ":memory:"]]
    ELSE [ok |-> FALSE, called |-> TRUE, conn |-> conn]

\* get_connection() that stores a handle before it knows the connect succeeded
get_connection_caches_failure(conn, token, connectOk, fresh) ==
    IF conn = None
    THEN [ok |-> connectOk, called |-> TRUE,
          conn |-> [id |-> fresh, mode |-> IF token # "" THEN "md" ELSE ":memory:"]]
    ELSE [ok |-> TRUE, called |-> FALSE, conn |-> conn]

\* get_connection(): conn is db_connection, connectOk is whether
\* duckdb.connect() succeeds if it is called.  A failed connect raises
\* before the assignment, so db_connection keeps its value.
\* fresh identifies the object a successful connect() would return.
get_connection(conn, token, connectOk, fresh) ==
    IF conn = None
    THEN IF connectOk
         THEN [ok |-> TRUE, called |-> TRUE,
               conn |-> [id |-> fresh, mode |-> IF token # "" THEN "md" ELSE ":memory:"]]
         ELSE [ok |-> FALSE, called |-> TRUE, conn |-> conn]
    ELSE [ok |-> TRUE, called |-> FALSE, conn |-> conn]

\* string tests on path segments: segment i > 1 is preceded by '/'
StartsWithEdit(seg) == seg \in {"edit", "edit#gid=0"}
StartsWithView(seg) == seg \in {"view"}
EndsWithHost(seg) == seg \in {"docs.google.com"}
StartsWithSpreadsheets(seg) == seg \in {"spreadsheets"}

\* '/edit' in url or '/view' in url
HasEditOrView(url) ==
    \E i \in 2..Len(url) : StartsWithEdit(url[i]) \/ StartsWithView(url[i])

\* positions of the segment "d" that has a '/' on both sides: '/d/'
DMarkers(url) == {i \in 2..(Len(url) - 1) : url[i] = "d"}

\* "docs.google.com/spreadsheets" in source
OnSheetHost(source) ==
    \E i \in 1..(Len(source) - 1) :
        EndsWithHost(source[i]) /\ StartsWithSpreadsheets(source[i + 1])

ExportUrl(sheet_id) ==
    <<"https:", "", "docs.google.com", "spreadsheets", "d", sheet_id, "export?format=csv">>

\* convert_google_sheet_url(url): url.split('/d/')[1] raises IndexError
\* when the url holds no '/d/'
convert_google_sheet_url(url) ==
    IF HasEditOrView(url)
    THEN IF DMarkers(url) = {}
         THEN [ok |-> FALSE, error |-> "IndexError", url |-> url]
         ELSE LET first == CHOOSE i \in DMarkers(url) : \A j \in DMarkers(url) : i <= j
              IN [ok |-> TRUE, error |-> "", url |-> ExportUrl(url[first + 1])]
    ELSE [ok |-> TRUE, error |-> "", url |-> url]

Ret(db, fs, ok, error, ret) ==
    [db |-> db, fs |-> fs, ok |-> ok, error |-> error, ret |-> ret]

Failure == [success |-> FALSE]

\* the two statements import_csv sends to the engine, in order
ImportStatements(table_name) ==
    << <<"DROP", "TABLE", "IF", "EXISTS">> \o table_name,
       <<"CREATE", "TABLE">> \o table_name \o <<"AS", "SELECT", "*", "FROM", "df">> >>

\* import_csv's source resolution
ResolveSource(source) ==
    IF OnSheetHost(source) THEN convert_google_sheet_url(source)
    ELSE [ok |-> TRUE, error |-> "", url |-> source]

Imported(db, fs, table_name, df) ==
    Ret(db, fs, TRUE, "",
        [success |-> TRUE, table_name |-> table_name,
         row_count |-> RowCount(df.rows), columns |-> df.columns])

\* import_csv with CREATE TABLE IF NOT EXISTS in place of drop-and-create
import_csv_if_not_exists(db, fs, source, table_name) ==
    LET conv == ResolveSource(source)
        rd == read_csv(fs, conv.url)
        e2 == Execute(db, ImportStatements(table_name)[2], rd.df)
        exists == Len(table_name) = 1 /\ table_name[1] \in DOMAIN db
    IN IF ~conv.ok THEN Ret(db, fs, FALSE, conv.error, Failure)
       ELSE IF ~rd.ok THEN Ret(db, fs, FALSE, rd.error, Failure)
       ELSE IF exists THEN Imported(db, fs, table_name, rd.df)
       ELSE IF ~e2.ok THEN Ret(e2.db, fs, FALSE, e2.error, Failure)
       ELSE Imported(e2.db, fs, table_name, rd.df)

\* import_csv that drops the table before it loads the source
import_csv_drop_first(db, fs, source, table_name) ==
    LET conv == ResolveSource(source)
        e1 == Execute(db, ImportStatements(table_name)[1], NoDf)
        rd == read_csv(fs, conv.url)
        e2 == Execute(e1.db, ImportStatements(table_name)[2], rd.df)
    IN IF ~conv.ok THEN Ret(db, fs, FALSE, conv.error, Failure)
       ELSE IF ~e1.ok THEN Ret(e1.db, fs, FALSE, e1.error, Failure)
       ELSE IF ~rd.ok THEN Ret(e1.db, fs, FALSE, rd.error, Failure)
       ELSE IF ~e2.ok THEN Ret(e2.db, fs, FALSE, e2.error, Failure)
       ELSE Imported(e2.db, fs, table_name, rd.df)

\* import_csv(source, table_name), after get_connection()
import_csv(db, fs, source, table_name) ==
    LET conv == ResolveSource(source)
        rd == read_csv(fs, conv.url)
        e1 == Execute(db, ImportStatements(table_name)[1], NoDf)
        e2 == Execute(e1.db, ImportStatements(table_name)[2], rd.df)
    IN IF ~conv.ok THEN Ret(db, fs, FALSE, conv.error, Failure)
       ELSE IF ~rd.ok THEN Ret(db, fs, FALSE, rd.error, Failure)
       ELSE IF ~e1.ok THEN Ret(e1.db, fs, FALSE, e1.error, Failure)
       ELSE IF ~e2.ok THEN Ret(e2.db, fs, FALSE, e2.error, Failure)
       ELSE Imported(e2.db, fs, table_name, rd.df)

\* "LIMIT" in query.upper(): a substring test, so it also finds LIMIT
\* inside a longer word
HasLIMIT(query) == \E i \in 1..Len(query) : Upper(query[i]) \in {"LIMIT", "LIMITS"}

\* the text query_data sends to the engine
WithLimit(query, limit) ==
    IF ~HasLIMIT(query) THEN query \o <<"LIMIT", IntToStr(limit)>> ELSE query

\* query_data(query, limit), after get_connection()
query_data(db, fs, query, limit) ==
    Bind(Execute(db, WithLimit(query, limit), NoDf), LAMBDA e :
        IF ~e.ok THEN Ret(e.db, fs, FALSE, e.error, Failure)
        ELSE Ret(e.db, fs, TRUE, "",
                 [success |-> TRUE, row_count |-> RowCount(e.df.rows),
                  columns |-> e.df.columns, data |-> e.df.rows]))

CountQuery(table_name) == <<"SELECT", "COUNT(*)", "as", "count", "FROM">> \o table_name

\* the loop of list_tables over the rows of SHOW TABLES
RECURSIVE CountEach(_, _, _)
CountEach(db, rows, infos) ==
    IF rows = <<>> THEN [ok |-> TRUE, db |-> db, error |-> "", infos |-> infos]
    ELSE Bind(Execute(db, CountQuery(<<Head(rows)[2]>>), NoDf), LAMBDA e :
            IF ~e.ok THEN [ok |-> FALSE, db |-> e.db, error |-> e.error, infos |-> infos]
            ELSE Bind(Tail(rows), LAMBDA rest :
                 Bind(Append(infos, [table_name |-> Head(rows)[2],
                                     row_count |-> e.df.rows[1][3]]),
                      LAMBDA more : CountEach(e.db, rest, more))))

\* list_tables(), after get_connection()
list_tables(db, fs) ==
    Bind(Execute(db, <<"SHOW", "TABLES">>, NoDf), LAMBDA e :
       IF ~e.ok THEN Ret(e.db, fs, FALSE, e.error, Failure)
       ELSE Bind(CountEach(e.db, e.df.rows, <<>>), LAMBDA c :
            IF ~c.ok THEN Ret(c.db, fs, FALSE, c.error, Failure)
            ELSE Ret(c.db, fs, TRUE, "",
                     [success |-> TRUE, table_count |-> Len(c.infos), tables |-> c.infos])))

\* the schema, sample and count queries shared by describe_table (sample 5)
\* and get_table_resource (sample 10)
Inspect(db, fs, table_name, sample) ==
    LET e1 == Execute(db, <<"DESCRIBE">> \o table_name, NoDf)
        e2 == Execute(e1.db, <<"SELECT", "*", "FROM">> \o table_name
                                 \o <<"LIMIT", IntToStr(sample)>>, NoDf)
        e3 == Execute(e2.db, CountQuery(table_name), NoDf)
    IN IF ~e1.ok THEN Ret(e1.db, fs, FALSE, e1.error, Failure)
       ELSE IF ~e2.ok THEN Ret(e2.db, fs, FALSE, e2.error, Failure)
       ELSE IF ~e3.ok THEN Ret(e3.db, fs, FALSE, e3.error, Failure)
       ELSE Ret(e3.db, fs, TRUE, "",
                [success |-> TRUE, table_name |-> table_name,
                 row_count |-> e3.df.rows[1][3],
                 schema |-> e1.df.rows, sample_data |-> e2.df.rows])

\* describe_table(table_name), after get_connection()
describe_table(db, fs, table_name) == Inspect(db, fs, table_name, DescribeSample)

\* get_table_resource(table_name), after get_connection()
get_table_resource(db, fs, table_name) == Inspect(db, fs, table_name, ResourceSample)

Exported(e, fs, output_path, index) ==
    IF ~e.ok THEN Ret(e.db, fs, FALSE, e.error, Failure)
    ELSE Ret(e.db, [fs EXCEPT ![output_path] = to_csv(e.df, index)], TRUE, "",
             [success |-> TRUE, row_count |-> RowCount(e.df.rows), output_path |-> output_path])

\* export_query_results with query_data's limit injection
export_query_results_limited(db, fs, query, output_path) ==
    Bind(Execute(db, WithLimit(query, DefaultLimit), NoDf), LAMBDA e :
        Exported(e, fs, output_path, FALSE))

\* export_query_results with pandas' default index=True
export_query_results_with_index(db, fs, query, output_path) ==
    Bind(Execute(db, query, NoDf), LAMBDA e : Exported(e, fs, output_path, TRUE))

\* export_query_results(query, output_path), after get_connection()
export_query_results(db, fs, query, output_path) ==
    Bind(Execute(db, query, NoDf), LAMBDA e : Exported(e, fs, output_path, FALSE))

\* get_table_stats(table_name), after get_connection()
get_table_stats(db, fs, table_name) ==
    Bind(Execute(db, <<"SUMMARIZE">> \o table_name, NoDf), LAMBDA e :
        IF ~e.ok THEN Ret(e.db, fs, FALSE, e.error, Failure)
        ELSE Ret(e.db, fs, TRUE, "",
                 [success |-> TRUE, table_name |-> table_name, statistics |-> e.df.rows]))

\* ========================================================= the inputs
DataCsv == <<"data.csv">>
BigCsv == <<"big.csv">>
EmptyCsv == <<"empty.csv">>
OutCsv == <<"", "tmp", "out.csv">>
SheetEdit == <<"https:", "", "docs.google.com", "spreadsheets", "d", "ABC123", "edit">>
SheetNoD == <<"https:", "", "docs.google.com", "spreadsheets", "edit">>
SheetBare == <<"https:", "", "docs.google.com", "spreadsheets", "u", "0">>

Sources == {DataCsv, BigCsv, EmptyCsv, OutCsv, SheetEdit, SheetNoD, SheetBare}
OutputPaths == {OutCsv, DataCsv}
AllPaths == Sources \cup {ExportUrl("ABC123")}

TableNames == {<<"t1">>, <<"limits">>, <<"t1", ";", "DROP", "TABLE", "limits">>}

SelectT1 == <<"SELECT", "*", "FROM", "t1">>
SelectLimits == <<"SELECT", "*", "FROM", "limits">>
SelectLower == <<"select", "*", "from", "t1", "limit", "2">>
SelectComment == <<"SELECT", "*", "FROM", "t1", "--", "note">>
DeleteT1 == <<"DELETE", "FROM", "t1">>
DropLimits == <<"DROP", "TABLE", "limits">>

Queries == {SelectT1, SelectLimits, SelectLower, SelectComment, DeleteT1, DropLimits}
Limits == {-1, 0, 2, DefaultLimit}

NoExport == [row_count |-> -1, columns |-> <<>>]

InitFiles ==
    [p \in AllPaths |->
        CASE p = DataCsv -> CsvFile(<<"id", "name">>, DataRows("data", 3))
          [] p = BigCsv -> CsvFile(<<"x">>, DataRows("big", BigRows))
          [] p = EmptyCsv -> CsvFile(<<>>, <<>>)
          [] p = ExportUrl("ABC123") -> CsvFile(<<"id", "name", "name">>, DataRows("sheet", 2))
          [] OTHER -> NoFile]

\* ========================================================= the state machine
Init ==
    /\ db_connection = None
    /\ tables = <<>>
    /\ files = InitFiles
    /\ result = [op |-> "none", args |-> <<>>, success |-> FALSE, error |-> "", ret |-> Failure]
    /\ connects = 0
    /\ attempts = 0
    /\ last_import = [t \in TableNames |-> -1]
    /\ exported = [p \in OutputPaths |-> NoExport]
    /\ reimported = FALSE
    /\ steps = 0

\* duckdb.connect() is only called, and so can only fail, while no handle
\* is cached
ConnectOutcomes == IF db_connection = None THEN BOOLEAN ELSE {TRUE}

Connect(connectOk) == get_connection(db_connection, MOTHERDUCK_TOKEN, connectOk, attempts + 1)

\* one tool invocation: c is what get_connection() did, r what the rest of
\* the handler does (r has no effect when get_connection() raised)
Invoke(op, args, c, r) ==
    /\ steps < MaxOps
    /\ steps' = steps + 1
    /\ db_connection' = c.conn
    /\ connects' = connects + (IF c.called /\ c.ok THEN 1 ELSE 0)
    /\ attempts' = attempts + (IF c.called THEN 1 ELSE 0)
    /\ IF c.ok
       THEN /\ tables' = r.db
            /\ files' = r.fs
            /\ result' = [op |-> op, args |-> args, success |-> r.ok,
                          error |-> r.error, ret |-> r.ret]
       ELSE /\ UNCHANGED <<tables, files>>
            /\ result' = [op |-> op, args |-> args, success |-> FALSE,
                          error |-> "ConnectionInitialization", ret |-> Failure]

ImportCsv ==
    \E source \in Sources, table_name \in TableNames, connectOk \in ConnectOutcomes :
        \E c \in {Connect(connectOk)}, r \in {import_csv(tables, files, source, table_name)} :
           /\ Invoke("import_csv", [source |-> source, table_name |-> table_name], c, r)
           /\ last_import' = IF c.ok /\ r.ok
                             THEN [last_import EXCEPT ![table_name] = r.ret.row_count]
                             ELSE last_import
           /\ reimported' = (/\ c.ok /\ r.ok /\ Len(table_name) = 1
                              /\ table_name[1] \in DOMAIN tables
                              /\ table_name[1] \in DOMAIN r.db
                              /\ r.db[table_name[1]] # tables[table_name[1]])
           /\ UNCHANGED exported

QueryData ==
    \E query \in Queries, limit \in Limits, connectOk \in ConnectOutcomes :
        \E c \in {Connect(connectOk)}, r \in {query_data(tables, files, query, limit)} :
           /\ Invoke("query_data", [query |-> query, limit |-> limit], c, r)
           /\ reimported' = FALSE
           /\ UNCHANGED <<last_import, exported>>

ListTables ==
    \E connectOk \in ConnectOutcomes :
        \E c \in {Connect(connectOk)}, r \in {list_tables(tables, files)} :
           /\ Invoke("list_tables", <<>>, c, r)
           /\ reimported' = FALSE
           /\ UNCHANGED <<last_import, exported>>

DescribeTable ==
    \E table_name \in TableNames, connectOk \in ConnectOutcomes :
        \E c \in {Connect(connectOk)}, r \in {describe_table(tables, files, table_name)} :
           /\ Invoke("describe_table", [table_name |-> table_name], c, r)
           /\ reimported' = FALSE
           /\ UNCHANGED <<last_import, exported>>

ExportQueryResults ==
    \E query \in Queries, output_path \in OutputPaths, connectOk \in ConnectOutcomes :
        \E c \in {Connect(connectOk)}, r \in {export_query_results(tables, files, query, output_path)} :
           /\ Invoke("export_query_results",
                     [query |-> query, output_path |-> output_path], c, r)
           /\ exported' = IF c.ok /\ r.ok
                          THEN [exported EXCEPT ![output_path] =
                                   [row_count |-> r.ret.row_count,
                                    columns |-> Execute(tables, query, NoDf).df.columns]]
                          ELSE exported
           /\ reimported' = FALSE
           /\ UNCHANGED last_import

GetTableStats ==
    \E table_name \in TableNames, connectOk \in ConnectOutcomes :
        \E c \in {Connect(connectOk)}, r \in {get_table_stats(tables, files, table_name)} :
           /\ Invoke("get_table_stats", [table_name |-> table_name], c, r)
           /\ reimported' = FALSE
           /\ UNCHANGED <<last_import, exported>>

GetTableResource ==
    \E table_name \in TableNames, connectOk \in ConnectOutcomes :
        \E c \in {Connect(connectOk)}, r \in {get_table_resource(tables, files, table_name)} :
           /\ Invoke("get_table_resource", [table_name |-> table_name], c, r)
           /\ reimported' = FALSE
           /\ UNCHANGED <<last_import, exported>>

Next ==
    \/ ImportCsv
    \/ QueryData
    \/ ListTables
    \/ DescribeTable
    \/ ExportQueryResults
    \/ GetTableStats
    \/ GetTableResource

Spec == Init /\ [][Next]_vars

\* ========================================================= the properties
ReadOnlyOps == {"query_data", "list_tables", "describe_table",
                "export_query_results", "get_table_stats", "get_table_resource"}

\* C1: the engine is initialised at most once, and once a handle is cached
\* every later get_connection() returns that same handle without calling
\* connect again.
C1_SingleConnection ==
    [][/\ connects' <= 1
       /\ (db_connection # None =>
              /\ db_connection' = db_connection
              /\ attempts' = attempts
              /\ connects' = connects)]_vars

\* an invocation ran on the handle an earlier invocation created
C1_Witness ==
    /\ db_connection # None
    /\ connects = 1
    /\ attempts = 1
    /\ steps >= 2
    /\ result.error # "ConnectionInitialization"

\* C2: when engine initialisation fails the invocation fails, nothing is
\* cached, connect was called exactly once in that invocation, and every
\* invocation that finds no cached handle calls connect again.
C2_FailedInitNotCached ==
    [][/\ (db_connection = None => attempts' = attempts + 1)
       /\ (db_connection = None /\ connects' = connects =>
              /\ db_connection' = None
              /\ ~result'.success
              /\ result'.error = "ConnectionInitialization"
              /\ tables' = tables
              /\ files' = files)]_vars

\* a failed initialisation was followed by a successful one
C2_Witness ==
    /\ attempts >= 2
    /\ connects = 1
    /\ db_connection # None

C4_LimitEnforced ==
    result.op = "query_data" /\ result.success /\ ~HasLIMIT(result.args.query) =>
        /\ result.ret.row_count <= result.args.limit
        /\ RowCount(result.ret.data) <= result.args.limit

\* C5: a source on the sheet host without a '/d/' marker is passed through
\* unchanged and the rewriting raises nothing; a rewritten source has the
\* marker and becomes the export URL of the segment after it.
C5_MalformedSheetUrlPassesThrough ==
    result.op = "import_csv" /\ result.error # "ConnectionInitialization"
        /\ OnSheetHost(result.args.source) =>
        LET source == result.args.source
            conv == ResolveSource(source)
        IN /\ (DMarkers(source) = {} =>
                  /\ result.error # "IndexError"
                  /\ conv.ok
                  /\ conv.url = source)
           /\ (conv.ok /\ conv.url # source =>
                  /\ DMarkers(source) # {}
                  /\ \E i \in DMarkers(source) : conv.url = ExportUrl(source[i + 1]))

\* C6: no invocation other than import_csv changes the set of tables or the
\* contents of a table.
C6_OnlyImportChangesTables ==
    [][result'.op \in ReadOnlyOps => tables' = tables]_vars

\* C7: export_query_results runs the query as given: for a plain
\* SELECT * FROM t the reported row_count and the written file cover every
\* row of t, and the file replaces what was at output_path.
C7_ExportIsUnlimited ==
    result.op = "export_query_results" /\ result.success =>
        LET q == result.args.query
            path == result.args.output_path
        IN /\ files[path] # NoFile
           /\ result.ret.row_count = RowCount(files[path].records)
           /\ (Len(q) = 4 /\ SubSeq(q, 1, 3) = <<"SELECT", "*", "FROM">>
                  /\ q[4] \in DOMAIN tables =>
                  /\ result.ret.row_count = RowCount(tables[q[4]].rows)
                  /\ files[path] = CsvFile(tables[q[4]].columns, tables[q[4]].rows))

\* an export of more rows than query_data's default limit, over an existing file
C7_Witness ==
    /\ result.op = "export_query_results"
    /\ result.success
    /\ result.ret.row_count > DefaultLimit
    /\ result.args.output_path = DataCsv
    /\ files[DataCsv] # InitFiles[DataCsv]

RowCountIn(infos, t) ==
    LET i == CHOOSE i \in 1..Len(infos) : infos[i].table_name = t IN infos[i].row_count

\* C9: for every existing table list_tables and describe_table report the
\* same row count, which is the row count its last successful import
\* returned; table_count is the number of tables.
C9_CatalogRowCounts ==
    LET lt == list_tables(tables, files) IN
    /\ lt.ok
    /\ lt.ret.table_count = Cardinality(DOMAIN tables)
    /\ \A t \in DOMAIN tables :
          LET dt == describe_table(tables, files, <<t>>) IN
          /\ dt.ok
          /\ RowCountIn(lt.ret.tables, t) = dt.ret.row_count
          /\ dt.ret.row_count = last_import[<<t>>]

\* C10: an import_csv that fails to fetch or parse its source leaves every
\* table and file as it was.
C10_FailedImportKeepsTables ==
    [][result'.op = "import_csv" /\ result'.error \in {"SourceFetch", "Parse"} =>
          /\ tables' = tables
          /\ files' = files
          /\ last_import' = last_import]_vars

\* a failed import under the name of an existing table
C10_Witness ==
    /\ result.op = "import_csv"
    /\ result.error \in {"SourceFetch", "Parse"}
    /\ Len(result.args.table_name) = 1
    /\ result.args.table_name[1] \in DOMAIN tables
    /\ RowCount(tables[result.args.table_name[1]].rows) > 0

====
